---- MODULE Spec2Model ----
(***************************************************************************)
(* Model of the custom:docker-compose scaffolder action                    *)
(* (src/runDockerCompose.ts, handler at lines 47-164).                     *)
(*                                                                         *)
(* Text (service names, child-process output, URLs) is a sequence of       *)
(* one-character strings, so that String.split, String.trim, the port      *)
(* regex and the JavaScript property-order rule are computed, not assumed. *)
(***************************************************************************)
EXTENDS Integers, Sequences, FiniteSets, TLC

VARIABLES
    manifest,      \* the compose file on disk: [exists, doc]
    pc,            \* position of the handler
    serviceNames,  \* let serviceNames: string[]
    idx,           \* index of the service the current for-loop is awaiting
    children,      \* child processes spawned and not yet closed
    spawned,       \* every spawn() call so far, in call order
    lastClose,     \* the latest 'close' event delivered: [kind, service, code]
    pipe,          \* stdout bytes the port query wrote, not yet delivered
    output,        \* let output = '' of the pending port query
    ports,         \* const ports: Record<string, mappings>, as own properties in insertion order
    webUrl,        \* let webUrl = ''
    outcome,       \* how the handler's promise settled
    emitted,       \* ctx.output(name, value) calls, in call order
    log,           \* ctx.logger calls, in call order
    reported,      \* per queried service, the lines its port query wrote
    splitFor,      \* services whose port-query output had a line cut by a data event
    diag,          \* chunks the children wrote on stdout/stderr, port-query stdout apart
    unread,        \* those of them whose data event has not fired yet
    stderrLogV2,   \* what the second variant's upProc stderr handler (lines 261-268) logs
    containers,    \* the runtime's namespace: services that have a container
    removedNow,    \* containers the removals of the current run deleted
    run,           \* number of the current invocation of the handler
    prev           \* how the previous invocation ended

logVars == <<diag, unread, stderrLogV2>>
runtimeVars == <<containers, removedNow>>
hostVars == <<run, prev>>

vars == <<manifest, pc, serviceNames, idx, children, spawned, lastClose, pipe,
          output, ports, webUrl, outcome, emitted, log, reported, splitFor,
          logVars, runtimeVars, hostVars>>

----------------------------------------------------------------------------
(* Bounds of the model. *)

MaxServices == 2   \* services declared by a manifest
MaxLines == 2      \* lines and chunks written by all children
MaxRuns == 2       \* invocations of the handler in a row
ChunkLen == 8      \* bytes of a data event that does not drain the pipe

----------------------------------------------------------------------------
(* Characters and text. *)

NL == "\n"

Digits == {"0", "1", "2", "3", "4", "5", "6", "7", "8", "9"}

\* String.prototype.trim strips these (those that occur in the model).
WhiteSpace == {" ", "\t", "\r", NL}

DigitVal(c) ==
    CASE c = "0" -> 0 [] c = "1" -> 1 [] c = "2" -> 2 [] c = "3" -> 3
      [] c = "4" -> 4 [] c = "5" -> 5 [] c = "6" -> 6 [] c = "7" -> 7
      [] c = "8" -> 8 [] c = "9" -> 9

RECURSIVE NumVal(_)
NumVal(s) ==
    IF s = <<>> THEN 0
    ELSE 10 * NumVal(SubSeq(s, 1, Len(s) - 1)) + DigitVal(s[Len(s)])

AllDigits(s) == \A k \in 1..Len(s) : s[k] \in Digits

Drop(s, n) == SubSeq(s, n + 1, Len(s))

Range(seq) == {seq[k] : k \in 1..Len(seq)}

StartsWith(s, p) == Len(s) >= Len(p) /\ SubSeq(s, 1, Len(p)) = p

\* The text a child writes for a sequence of lines: each ended by a newline.
RECURSIVE WrittenText(_)
WrittenText(lines) ==
    IF lines = <<>> THEN <<>>
    ELSE Head(lines) \o <<NL>> \o WrittenText(Tail(lines))

\* str.includes(token)
Includes(str, token) ==
    \E k \in 0..(Len(str) - Len(token)) : SubSeq(str, k + 1, k + Len(token)) = token

\* Service names the manifests of the model declare.
WEB == <<"w", "e", "b">>
TWO == <<"2">>
TEN == <<"1", "0">>

Names == {WEB, TWO, TEN}

----------------------------------------------------------------------------
(* JavaScript own-property order (Object.keys, Object.entries): the keys    *)
(* that are array indices in ascending numeric order, then the other       *)
(* string keys in insertion order.                                         *)

\* A canonical numeric string below 2^32 - 1.  Every canonical string of fewer
\* than ten digits is one; the model declares no longer numeric name.
IsArrayIndex(key) ==
    /\ Len(key) >= 1
    /\ Len(key) < 10
    /\ AllDigits(key)
    /\ (Len(key) = 1 \/ key[1] # "0")

RECURSIVE SortIndices(_)
SortIndices(keys) ==
    IF keys = {} THEN <<>>
    ELSE LET least == CHOOSE k \in keys : \A o \in keys : NumVal(k) <= NumVal(o)
         IN  <<least>> \o SortIndices(keys \ {least})

OwnKeys(inserted) ==
    SortIndices({inserted[k] : k \in {j \in 1..Len(inserted) : IsArrayIndex(inserted[j])}})
        \o SelectSeq(inserted, LAMBDA key : ~IsArrayIndex(key))

----------------------------------------------------------------------------
(* Port discovery: the text of a port query and its parse (lines 132-142). *)

TCP_ARROW == <<"/", "t", "c", "p", " ", "-", ">", " ">>

\* Lines a port query writes in the model (docker port prints one binding
\* per line, each ended by a newline).
LineTcp   == <<"8", "0">> \o TCP_ARROW \o <<"h", ":", "9">>
LineTcp2  == <<"5">> \o TCP_ARROW \o <<"h", ":", "7", "1">>
LineUdp   == <<"5", "/", "u", "d", "p", " ", "-", ">", " ", "h", ":", "5">>
LineIPv6  == <<"8", "0">> \o TCP_ARROW \o <<"[", ":", ":", "]", ":", "9">>
LineBlank == <<>>

QueryLines == {LineTcp, LineTcp2, LineUdp, LineIPv6, LineBlank}

\* output.split('\n')
RECURSIVE SplitFrom(_, _)
SplitFrom(text, cur) ==
    IF text = <<>> THEN <<cur>>
    ELSE IF Head(text) = NL THEN <<cur>> \o SplitFrom(Tail(text), <<>>)
    ELSE SplitFrom(Tail(text), Append(cur, Head(text)))

Split(text) == SplitFrom(text, <<>>)

\* line.trim(), used for its truthiness: is anything left after trimming?
TrimIsEmpty(line) == \A k \in 1..Len(line) : line[k] \in WhiteSpace

\* Length of the longest prefix of s made of characters of set cs (a greedy
\* quantifier over a character class).
RECURSIVE Span(_, _)
Span(s, cs) ==
    IF s # <<>> /\ Head(s) \in cs THEN 1 + Span(Tail(s), cs) ELSE 0

RECURSIVE SpanNot(_, _)
SpanNot(s, c) ==
    IF s # <<>> /\ Head(s) # c THEN 1 + SpanNot(Tail(s), c) ELSE 0

\* MatchLine with the two capture groups taken in the wrong order.
MatchLine_swapped(line) ==
    LET n1    == Span(line, Digits)
        rest1 == Drop(line, n1)
        rest2 == Drop(rest1, Len(TCP_ARROW))
        n2    == SpanNot(rest2, ":")
        rest3 == Drop(rest2, n2)
        port  == Drop(rest3, 1)
    IN  IF /\ n1 >= 1
           /\ StartsWith(rest1, TCP_ARROW)
           /\ n2 >= 1
           /\ rest3 # <<>>
           /\ port # <<>>
           /\ AllDigits(port)
        THEN <<[containerPort |-> port, hostPort |-> SubSeq(line, 1, n1)]>>
        ELSE <<>>

\* line.match(/^(\d+)\/tcp -> [^:]+:(\d+)$/): the sequence of zero or one
\* mapping the line yields.  Each quantifier is followed by a character
\* outside its class, so the greedy scan decides the match.
MatchLine(line) ==
    LET n1    == Span(line, Digits)
        rest1 == Drop(line, n1)
        rest2 == Drop(rest1, Len(TCP_ARROW))
        n2    == SpanNot(rest2, ":")
        rest3 == Drop(rest2, n2)
        port  == Drop(rest3, 1)
    IN  IF /\ n1 >= 1
           /\ StartsWith(rest1, TCP_ARROW)
           /\ n2 >= 1
           /\ rest3 # <<>>
           /\ port # <<>>
           /\ AllDigits(port)
        THEN <<[containerPort |-> SubSeq(line, 1, n1), hostPort |-> port]>>
        ELSE <<>>

\* The forEach over the lines: non-blank lines that match push one mapping.
RECURSIVE ParseLines(_)
ParseLines(lines) ==
    IF lines = <<>> THEN <<>>
    ELSE (IF TrimIsEmpty(Head(lines)) THEN <<>> ELSE MatchLine(Head(lines)))
             \o ParseLines(Tail(lines))

\* The split is bound once (const lines = output.split('\n')) and then scanned.
ParsePorts(text) == CHOOSE found \in {ParseLines(lines) : lines \in {Split(text)}} : TRUE

----------------------------------------------------------------------------
(* The ports record and the web URL (lines 142, 150-157). *)

\* SetProp keyed by the container's name (compose names it <service>-1).
SetProp_containerName(obj, key, val) ==
    Append(obj, [key |-> key \o <<"-", "1">>, val |-> val])

\* ports[service] = mappings, on the list of own properties in insertion order
SetProp(obj, key, val) ==
    IF \E k \in 1..Len(obj) : obj[k].key = key
    THEN [k \in 1..Len(obj) |-> IF obj[k].key = key THEN [key |-> key, val |-> val] ELSE obj[k]]
    ELSE Append(obj, [key |-> key, val |-> val])

GetProp(obj, key) ==
    LET k == CHOOSE j \in 1..Len(obj) : obj[j].key = key IN obj[k].val

HasProp(obj, key) == \E k \in 1..Len(obj) : obj[k].key = key

InsertedKeys(obj) == [k \in 1..Len(obj) |-> obj[k].key]

\* Object.entries(ports): the own keys are listed once, in own-property order,
\* and each is paired with its value.
ObjectEntries(obj) ==
    CHOOSE entries \in {[k \in 1..Len(keys) |-> [key |-> keys[k], val |-> GetProp(obj, keys[k])]] :
                           keys \in {OwnKeys(inserted) : inserted \in {InsertedKeys(obj)}}} : TRUE

URL_PREFIX == <<"http://localhost:">>

\* PickWebUrl reading the first entry's first mapping without the length test.
PickWebUrl_unguarded(entries) ==
    URL_PREFIX \o (IF entries # <<>> /\ Len(Head(entries).val) > 0
                   THEN Head(entries).val[1].hostPort
                   ELSE <<"undefined">>)

\* for (const [service, mappings] of Object.entries(ports)) { ... break }
RECURSIVE PickWebUrl(_)
PickWebUrl(entries) ==
    IF entries = <<>> THEN <<>>
    ELSE IF Len(Head(entries).val) > 0
         THEN URL_PREFIX \o Head(entries).val[1].hostPort
         ELSE PickWebUrl(Tail(entries))

----------------------------------------------------------------------------
(* Inputs: the manifest on disk and what the runtime's processes do.       *)

\* Declarations of a services section: distinct names, in the order the
\* manifest text lists them.
Decls ==
    {d \in UNION {[1..n -> Names] : n \in 0..MaxServices} :
        \A a, b \in 1..Len(d) : a # b => d[a] # d[b]}

\* What reading and loading the manifest gives (lines 61-62):
\*   throws      readFileSync or yaml.load throws
\*   undefined   yaml.load returns undefined (an empty document)
\*   noServices  a document whose services property is absent or null
\*   services    a document whose services section declares decl
Docs ==
    {[kind |-> k, decl |-> <<>>] : k \in {"throws", "undefined", "noServices"}}
        \cup {[kind |-> "services", decl |-> d] : d \in Decls}

Manifests ==
    {[exists |-> FALSE, doc |-> [kind |-> "throws", decl |-> <<>>]]}
        \cup {[exists |-> TRUE, doc |-> d] : d \in Docs}

\* The code argument of a 'close' event; SIGNALLED stands for null, the
\* code of a child that a signal killed.
SIGNALLED == 0 - 1
CloseCodes == {0, 1, SIGNALLED}

NoService == <<>>
Child(kind, service) == [kind |-> kind, service |-> service]
NoClose == [kind |-> "none", service |-> NoService, code |-> 0]

Entry(sev, msg) == [sev |-> sev, msg |-> msg, text |-> <<>>]

\* ctx.logger.<sev>(`<label>: ${data.toString()}`)
DiagEntry(sev, label, text) == [sev |-> sev, msg |-> label, text |-> text]

NotSettled == [kind |-> "pending", error |-> "none", code |-> 0]
Returned == [kind |-> "returned", error |-> "none", code |-> 0]
Thrown(error, code) == [kind |-> "error", error |-> error, code |-> code]

RECURSIVE SumLen(_, _)
SumLen(f, dom) ==
    IF dom = {} THEN 0
    ELSE LET s == CHOOSE x \in dom : TRUE
         IN  Len(f[s]) + SumLen(f, dom \ {s})

LinesWritten == SumLen(reported, DOMAIN reported) + Len(diag) + prev.written

NoPrev == [outcome |-> NotSettled, ports |-> <<>>, webUrl |-> <<>>,
           reported |-> <<>>, written |-> 0]

----------------------------------------------------------------------------
(* The handler (lines 47-164). *)

HandlerInit ==
    /\ manifest \in Manifests
    /\ pc = "init"
    /\ serviceNames = <<>>
    /\ idx = 0
    /\ children = {}
    /\ spawned = <<>>
    /\ lastClose = NoClose
    /\ pipe = <<>>
    /\ output = <<>>
    /\ ports = <<>>
    /\ webUrl = <<>>
    /\ outcome = NotSettled
    /\ emitted = <<>>
    /\ log = <<>>
    /\ reported = <<>>
    /\ splitFor = {}
    /\ diag = <<>>
    /\ unread = <<>>
    /\ stderrLogV2 = <<>>
    /\ removedNow = {}
    /\ run = 1
    /\ prev = NoPrev

\* A first invocation on a runtime that holds no container.
Init == HandlerInit /\ containers = {}

\* RmTargets of a removal whose filter matches no container.
RmTargets_none(service) == {}

\* docker ps -a --filter "name=${service}" (line 76): the containers the
\* removal of a service deletes.
RmTargets(service) == {c \in containers : c = service}

\* The namespace after a removal closed: with code 0 the targets are gone,
\* otherwise docker rm may or may not have deleted them.
AfterRemoval(service, code) ==
    IF code = 0 THEN {containers \ RmTargets(service)}
    ELSE {containers, containers \ RmTargets(service)}

\* The namespace after docker compose up closed (line 93): with code 0 every
\* declared service has its container, otherwise they may have been created.
AfterUp(code) ==
    IF code = 0 THEN {containers \cup Range(manifest.doc.decl)}
    ELSE {containers, containers \cup Range(manifest.doc.decl)}

\* ManifestFound with the existence test left out.
ManifestFound_unchecked(m) == TRUE

\* fs.existsSync(composePath), line 53
ManifestFound(m) == m.exists

\* ExtractServices reading doc?.services: an empty document no longer throws.
ExtractServices_optionalChaining(doc) ==
    IF doc.kind = "throws"
    THEN [names |-> <<>>, log |-> <<Entry("warn", "parseFailed")>>]
    ELSE IF doc.kind \in {"undefined", "noServices"}
    THEN [names |-> <<>>, log |-> <<>>]
    ELSE [names |-> OwnKeys(doc.decl), log |-> <<Entry("info", "detected")>>]

\* ExtractServices taking the names in the order the manifest declares them.
ExtractServices_declaredOrder(doc) ==
    IF doc.kind \in {"throws", "undefined"}
    THEN [names |-> <<>>, log |-> <<Entry("warn", "parseFailed")>>]
    ELSE IF doc.kind = "noServices"
    THEN [names |-> <<>>, log |-> <<>>]
    ELSE [names |-> doc.decl, log |-> <<Entry("info", "detected")>>]

\* Step 1, lines 58-69: the service names and what is logged.
ExtractServices(doc) ==
    IF doc.kind \in {"throws", "undefined"}
    THEN [names |-> <<>>, log |-> <<Entry("warn", "parseFailed")>>]
    ELSE IF doc.kind = "noServices"
    THEN [names |-> <<>>, log |-> <<>>]
    ELSE [names |-> OwnKeys(doc.decl), log |-> <<Entry("info", "detected")>>]

\* RmLoop whose promises are not awaited: every remaining removal and
\* docker compose up are spawned at once.
RmLoop_notAwaited(names, i, rest, lg) ==
    LET removals == [k \in 1..(Len(names) + 1 - i) |-> Child("rm", names[i + k - 1])]
    IN  /\ pc' = "up"
        /\ idx' = 0
        /\ children' = rest \cup Range(removals) \cup {Child("up", NoService)}
        /\ spawned' = spawned \o removals \o <<Child("up", NoService)>>
        /\ log' = Append(lg, Entry("info", "starting"))

\* Lines 72-95: the removal loop from its i-th service on, then the spawn of
\* docker compose up.  rest are the children still outstanding, lg the log.
RmLoop(names, i, rest, lg) ==
    IF i <= Len(names)
    THEN /\ pc' = "rm"
         /\ idx' = i
         /\ children' = rest \cup {Child("rm", names[i])}
         /\ spawned' = Append(spawned, Child("rm", names[i]))
         /\ log' = lg
    ELSE /\ pc' = "up"
         /\ idx' = 0
         /\ children' = rest \cup {Child("up", NoService)}
         /\ spawned' = Append(spawned, Child("up", NoService))
         /\ log' = Append(lg, Entry("info", "starting"))

\* InspectLoop that emits the ports output after every port query.
InspectLoop_emitEach(names, j, rest, p, lg) ==
    IF j <= Len(names)
    THEN /\ pc' = "inspect"
         /\ idx' = j
         /\ children' = rest \cup {Child("inspect", names[j])}
         /\ spawned' = Append(spawned, Child("inspect", names[j]))
         /\ output' = <<>>
         /\ pipe' = <<>>
         /\ ports' = p
         /\ log' = lg
         /\ reported' = (names[j] :> <<>>) @@ reported
         /\ emitted' = Append(emitted, [name |-> "ports", ports |-> ports', webUrl |-> <<>>])
         /\ UNCHANGED <<webUrl, outcome>>
    ELSE /\ pc' = "done"
         /\ idx' = 0
         /\ children' = rest
         /\ ports' = p
         /\ \E entries \in {ObjectEntries(ports')} : webUrl' = PickWebUrl(entries)
         /\ emitted' = emitted \o <<[name |-> "ports", ports |-> ports', webUrl |-> <<>>],
                                    [name |-> "webUrl", ports |-> <<>>, webUrl |-> webUrl']>>
         /\ log' = lg \o <<Entry("info", "exposedPorts"), Entry("info", "webUrl")>>
         /\ outcome' = Returned
         /\ UNCHANGED <<spawned, output, pipe, reported>>

\* Lines 121-163: the port-query loop from its j-th service on, then the
\* choice of the web URL and the outputs.  p is the ports record so far.
InspectLoop(names, j, rest, p, lg) ==
    IF j <= Len(names)
    THEN /\ pc' = "inspect"
         /\ idx' = j
         /\ children' = rest \cup {Child("inspect", names[j])}
         /\ spawned' = Append(spawned, Child("inspect", names[j]))
         /\ output' = <<>>
         /\ pipe' = <<>>
         /\ ports' = p
         /\ log' = lg
         /\ reported' = (names[j] :> <<>>) @@ reported
         /\ UNCHANGED <<webUrl, emitted, outcome>>
    ELSE /\ pc' = "done"
         /\ idx' = 0
         /\ children' = rest
         /\ ports' = p
         /\ \E entries \in {ObjectEntries(ports')} : webUrl' = PickWebUrl(entries)
         /\ emitted' = emitted \o <<[name |-> "ports", ports |-> ports', webUrl |-> <<>>],
                                    [name |-> "webUrl", ports |-> <<>>, webUrl |-> webUrl']>>
         /\ log' = lg \o <<Entry("info", "exposedPorts"), Entry("info", "webUrl")>>
         /\ outcome' = Returned
         /\ UNCHANGED <<spawned, output, pipe, reported>>

\* handler(ctx) up to its first await of a child (lines 47-77 or 47-95).
Invoke ==
    /\ pc = "init"
    /\ LET lg == <<Entry("info", "composeFile")>>
       IN  IF ~ManifestFound(manifest)
           THEN /\ pc' = "thrown"
                /\ outcome' = Thrown("composeFileNotFound", 0)
                /\ log' = lg
                /\ UNCHANGED <<serviceNames, idx, children, spawned>>
           ELSE LET ex == ExtractServices(manifest.doc)
                IN  /\ serviceNames' = ex.names
                    /\ RmLoop(ex.names, 1, children, lg \o ex.log)
                    /\ UNCHANGED outcome
    /\ UNCHANGED <<manifest, lastClose, pipe, output, ports, webUrl, emitted, reported,
                   splitFor, logVars, runtimeVars, hostVars>>

\* RmClose that rejects when the removal did not exit with code 0.
RmClose_checked(code) ==
    /\ pc = "rm"
    /\ unread = <<>>
    /\ LET child == Child("rm", serviceNames[idx])
       IN  /\ child \in children
           /\ lastClose' = [kind |-> "rm", service |-> child.service, code |-> code]
           /\ IF code = 0
              THEN /\ RmLoop(serviceNames, idx + 1, children \ {child},
                             Append(log, Entry("info", "removed")))
                   /\ UNCHANGED outcome
              ELSE /\ pc' = "rejected"
                   /\ outcome' = Thrown("rmExited", code)
                   /\ children' = children \ {child}
                   /\ UNCHANGED <<idx, spawned, log>>
    /\ containers' \in AfterRemoval(serviceNames[idx], code)
    /\ removedNow' = removedNow \cup (containers \ containers')
    /\ UNCHANGED <<manifest, serviceNames, pipe, output, ports, webUrl,
                   emitted, reported, splitFor, logVars, hostVars>>

\* rmProc.on('close', ...), lines 81-84, and the loop's next step.
RmClose(code) ==
    /\ pc = "rm"
    /\ unread = <<>>
    /\ LET child == Child("rm", serviceNames[idx])
       IN  /\ child \in children
           /\ lastClose' = [kind |-> "rm", service |-> child.service, code |-> code]
           /\ RmLoop(serviceNames, idx + 1, children \ {child},
                     Append(log, Entry("info", "removed")))
    /\ containers' \in AfterRemoval(serviceNames[idx], code)
    /\ removedNow' = removedNow \cup (containers \ containers')
    /\ UNCHANGED <<manifest, serviceNames, pipe, output, ports, webUrl, outcome,
                   emitted, reported, splitFor, logVars, hostVars>>

\* UpOk that only tells a signalled child (code null) from an exited one.
UpOk_notSignalled(code) == code >= 0

\* code === 0, line 108
UpOk(code) == code = 0

\* UpClose whose close handler does nothing for a code other than 0: the
\* awaited promise is never settled.
UpClose_ignoresFailure(code) ==
    /\ pc = "up"
    /\ unread = <<>>
    /\ LET child == Child("up", NoService)
       IN  /\ child \in children
           /\ lastClose' = [kind |-> "up", service |-> NoService, code |-> code]
           /\ IF UpOk(code)
              THEN InspectLoop(serviceNames, 1, children \ {child}, <<>>,
                               Append(log, Entry("info", "upSucceeded")))
              ELSE /\ children' = children \ {child}
                   /\ UNCHANGED <<pc, outcome, log, idx, spawned, output, pipe, ports,
                                  webUrl, emitted, reported>>
    /\ containers' \in AfterUp(code)
    /\ UNCHANGED <<manifest, serviceNames, splitFor, logVars, removedNow, hostVars>>

\* upProc.on('close', code => ...), lines 107-115, and what follows the await.
UpClose(code) ==
    /\ pc = "up"
    /\ unread = <<>>
    /\ LET child == Child("up", NoService)
       IN  /\ child \in children
           /\ lastClose' = [kind |-> "up", service |-> NoService, code |-> code]
           /\ IF UpOk(code)
              THEN InspectLoop(serviceNames, 1, children \ {child}, <<>>,
                               Append(log, Entry("info", "upSucceeded")))
              ELSE /\ pc' = "rejected"
                   /\ outcome' = Thrown("upExited", code)
                   /\ log' = Append(log, Entry("error", "upExited"))
                   /\ children' = children \ {child}
                   /\ UNCHANGED <<idx, spawned, output, pipe, ports, webUrl,
                                  emitted, reported>>
    /\ containers' \in AfterUp(code)
    /\ UNCHANGED <<manifest, serviceNames, splitFor, logVars, removedNow, hostVars>>

\* The port query's pipeline writes one line to its stdout.
InspectWrite(line) ==
    /\ pc = "inspect"
    /\ Child("inspect", serviceNames[idx]) \in children
    /\ LinesWritten < MaxLines
    /\ pipe' = pipe \o line \o <<NL>>
    /\ reported' = [reported EXCEPT ![serviceNames[idx]] = Append(@, line)]
    /\ UNCHANGED <<manifest, pc, serviceNames, idx, children, spawned, lastClose,
                   output, ports, webUrl, outcome, emitted, log, splitFor,
                   logVars, runtimeVars, hostVars>>

\* InspectData that keeps only the latest chunk (output = data.toString()).
InspectData_overwrite(n) ==
    /\ pc = "inspect"
    /\ n \in 1..Len(pipe)
    /\ n \in {ChunkLen, Len(pipe)}
    /\ output' = SubSeq(pipe, 1, n)
    /\ pipe' = Drop(pipe, n)
    /\ splitFor' = IF pipe[n] = NL THEN splitFor ELSE splitFor \cup {serviceNames[idx]}
    /\ UNCHANGED <<manifest, pc, serviceNames, idx, children, spawned, lastClose,
                   ports, webUrl, outcome, emitted, log, reported,
                   logVars, runtimeVars, hostVars>>

\* inspectProc.stdout.on('data', data => output += data.toString()), line 129:
\* a data event carries the first n bytes not yet delivered (in the model,
\* all of them or the first ChunkLen).
InspectData(n) ==
    /\ pc = "inspect"
    /\ n \in 1..Len(pipe)
    /\ n \in {ChunkLen, Len(pipe)}
    /\ output' = output \o SubSeq(pipe, 1, n)
    /\ pipe' = Drop(pipe, n)
    /\ splitFor' = IF pipe[n] = NL THEN splitFor ELSE splitFor \cup {serviceNames[idx]}
    /\ UNCHANGED <<manifest, pc, serviceNames, idx, children, spawned, lastClose,
                   ports, webUrl, outcome, emitted, log, reported,
                   logVars, runtimeVars, hostVars>>

\* InspectClose that stores an entry only for a query that exited with
\* code 0 and yielded a mapping.
InspectClose_skipEmpty(code) ==
    /\ pc = "inspect"
    /\ pipe = <<>>
    /\ unread = <<>>
    /\ LET child == Child("inspect", serviceNames[idx])
       IN  /\ child \in children
           /\ lastClose' = [kind |-> "inspect", service |-> child.service, code |-> code]
           /\ \E mappings \in {ParsePorts(output)} :
                  InspectLoop(serviceNames, idx + 1, children \ {child},
                              IF code = 0 /\ mappings # <<>>
                              THEN SetProp(ports, child.service, mappings) ELSE ports, log)
    /\ UNCHANGED <<manifest, serviceNames, splitFor, logVars, runtimeVars, hostVars>>

\* inspectProc.on('close', ...), lines 132-144, and the loop's next step.  The
\* event comes once the child's streams have ended.
InspectClose(code) ==
    /\ pc = "inspect"
    /\ pipe = <<>>
    /\ unread = <<>>
    /\ LET child == Child("inspect", serviceNames[idx])
       IN  /\ child \in children
           /\ lastClose' = [kind |-> "inspect", service |-> child.service, code |-> code]
           /\ \E mappings \in {ParsePorts(output)} :
                  InspectLoop(serviceNames, idx + 1, children \ {child},
                              SetProp(ports, child.service, mappings), log)
    /\ UNCHANGED <<manifest, serviceNames, splitFor, logVars, runtimeVars, hostVars>>

----------------------------------------------------------------------------
(* Diagnostics: what the children write on stdout and stderr, and the data  *)
(* handlers that forward it to ctx.logger (lines 79-80, 97-105, 130).       *)

CREATING      == <<"C", "r", "e", "a", "t", "i", "n", "g">>
CREATED       == <<"C", "r", "e", "a", "t", "e", "d">>
LEVEL_WARNING == <<"l", "e", "v", "e", "l", "=", "w", "a", "r", "n", "i", "n", "g">>

\* Lines the children write in the model.  BOOM holds none of the tokens.
BOOM     == <<"b", "o", "o", "m">>
RM_NAME  == <<"w", "e", "b", "-", "1">>
RM_ERR   == <<"b", "u", "s", "y">>
UP_OUT   == <<"d", "o", "n", "e">>
PORT_ERR == <<"g", "o", "n", "e">>

\* Chunks docker compose up writes on stderr: one line, or two lines that
\* reach the handler in one data event.
UpErrChunks == {<<BOOM>>, <<CREATING>>, <<CREATED>>, <<LEVEL_WARNING>>, <<CREATED, BOOM>>}

\* What a child of each kind writes, port-query stdout apart (InspectWrite).
Writes(kind) ==
    CASE kind = "rm" ->
             {[stream |-> "stdout", lines |-> <<RM_NAME>>],
              [stream |-> "stderr", lines |-> <<RM_ERR>>]}
      [] kind = "up" ->
             {[stream |-> "stdout", lines |-> <<UP_OUT>>]}
                 \cup {[stream |-> "stderr", lines |-> c] : c \in UpErrChunks}
      [] kind = "inspect" ->
             {[stream |-> "stderr", lines |-> <<PORT_ERR>>]}
      [] OTHER -> {}

\* The child the handler is awaiting.
CurrentChild == Child(pc, IF pc = "up" THEN NoService ELSE serviceNames[idx])

\* The awaited child writes a chunk on one of its streams.
ChildWrite(w) ==
    /\ pc \in {"rm", "up", "inspect"}
    /\ CurrentChild \in children
    /\ LinesWritten < MaxLines
    /\ w \in Writes(pc)
    /\ LET chunk == [kind |-> pc, service |-> CurrentChild.service,
                     stream |-> w.stream, lines |-> w.lines]
       IN  /\ diag' = Append(diag, chunk)
           /\ unread' = Append(unread, chunk)
    /\ UNCHANGED <<manifest, pc, serviceNames, idx, children, spawned, lastClose,
                   pipe, output, ports, webUrl, outcome, emitted, log, reported,
                   splitFor, stderrLogV2, runtimeVars, hostVars>>

\* Index in unread of the oldest chunk of a stream, 0 when there is none:
\* a stream delivers its chunks in the order written.
FirstUnread(stream) ==
    IF \E k \in 1..Len(unread) : unread[k].stream = stream
    THEN CHOOSE k \in 1..Len(unread) :
             /\ unread[k].stream = stream
             /\ \A j \in 1..(k - 1) : unread[j].stream # stream
    ELSE 0

Remove(seq, k) == SubSeq(seq, 1, k - 1) \o SubSeq(seq, k + 1, Len(seq))

\* data.toString() of the chunk a data event of the stream carries
DataOf(stream) == WrittenText(unread[FirstUnread(stream)].lines)

\* A data event of a stream of the awaited child, whose handler logs entry.
DataEvent(kind, stream, entry) ==
    /\ pc = kind
    /\ FirstUnread(stream) # 0
    /\ log' = Append(log, entry)
    /\ unread' = Remove(unread, FirstUnread(stream))
    /\ UNCHANGED <<manifest, pc, serviceNames, idx, children, spawned, lastClose,
                   pipe, output, ports, webUrl, outcome, emitted, reported,
                   splitFor, diag, runtimeVars, hostVars>>

\* str.includes('Creating') || str.includes('Created') || str.includes('level=warning')
HasToken(str) ==
    \/ Includes(str, CREATING)
    \/ Includes(str, CREATED)
    \/ Includes(str, LEVEL_WARNING)

\* upProc.stderr.on('data', ...), lines 98-105
UpStderrEntry(str) ==
    IF HasToken(str)
    THEN DiagEntry("warn", "DOCKER WARN", str)
    ELSE DiagEntry("warn", "DOCKER ERR", str)

\* upProc.stderr.on('data', ...) of the second variant, lines 261-268
UpStderrEntryV2(str) ==
    IF HasToken(str)
    THEN DiagEntry("warn", "DOCKER WARN", str)
    ELSE DiagEntry("error", "DOCKER ERR", str)

\* rmProc.stdout.on('data', ...), line 79
RmStdoutData ==
    /\ DataEvent("rm", "stdout", DiagEntry("info", "DOCKER OUT", DataOf("stdout")))
    /\ UNCHANGED stderrLogV2

\* rmProc.stderr.on('data', ...), line 80
RmStderrData ==
    /\ DataEvent("rm", "stderr", DiagEntry("warn", "DOCKER WARN", DataOf("stderr")))
    /\ UNCHANGED stderrLogV2

\* upProc.stdout.on('data', ...), line 97
UpStdoutData ==
    /\ DataEvent("up", "stdout", DiagEntry("info", "DOCKER OUT", DataOf("stdout")))
    /\ UNCHANGED stderrLogV2

\* upProc.stderr.on('data', ...), lines 98-105; stderrLogV2 records what the
\* second variant's handler logs for the same chunk.
UpStderrData ==
    /\ DataEvent("up", "stderr", UpStderrEntry(DataOf("stderr")))
    /\ stderrLogV2' = Append(stderrLogV2, UpStderrEntryV2(DataOf("stderr")))

\* InspectStderrData of a port query whose stderr has no handler.
InspectStderrData_unhandled ==
    /\ pc = "inspect"
    /\ FirstUnread("stderr") # 0
    /\ unread' = Remove(unread, FirstUnread("stderr"))
    /\ UNCHANGED <<manifest, pc, serviceNames, idx, children, spawned, lastClose,
                   pipe, output, ports, webUrl, outcome, emitted, log, reported,
                   splitFor, diag, stderrLogV2, runtimeVars, hostVars>>

\* inspectProc.stderr.on('data', ...), line 130
InspectStderrData ==
    /\ DataEvent("inspect", "stderr", DiagEntry("warn", "DOCKER WARN", DataOf("stderr")))
    /\ UNCHANGED stderrLogV2

Next ==
    \/ Invoke
    \/ \E code \in CloseCodes : RmClose(code)
    \/ \E code \in CloseCodes : UpClose(code)
    \/ \E line \in QueryLines : InspectWrite(line)
    \/ \E n \in 1..Len(pipe) : InspectData(n)
    \/ \E code \in CloseCodes : InspectClose(code)

Spec == Init /\ [][Next]_vars

\* The host calls the handler, the event loop delivers pending data, and
\* every spawned child eventually emits its 'close' event.
Fairness ==
    /\ WF_vars(Invoke)
    /\ WF_vars(\E code \in CloseCodes : RmClose(code))
    /\ WF_vars(\E code \in CloseCodes : UpClose(code))
    /\ WF_vars(\E n \in 1..Len(pipe) : InspectData(n))
    /\ WF_vars(\E code \in CloseCodes : InspectClose(code))

SpecFair == Init /\ [][Next]_vars /\ Fairness

\* The handler together with what its children write on their streams.
NextLogs ==
    \/ Next
    \/ \E w \in Writes(pc) : ChildWrite(w)
    \/ RmStdoutData
    \/ RmStderrData
    \/ UpStdoutData
    \/ UpStderrData
    \/ InspectStderrData

SpecLogs == Init /\ [][NextLogs]_vars

\* The host runs the action again once the previous invocation has ended:
\* handler(ctx) is called on the same manifest and on the runtime as the
\* previous invocation left it; everything the handler declares is new.
Rerun ==
    /\ pc \in {"done", "rejected", "thrown"}
    /\ run < MaxRuns
    /\ run' = run + 1
    /\ prev' = [outcome |-> outcome, ports |-> ports, webUrl |-> webUrl,
                reported |-> reported, written |-> LinesWritten]
    /\ pc' = "init"
    /\ serviceNames' = <<>>
    /\ idx' = 0
    /\ children' = {}
    /\ spawned' = <<>>
    /\ lastClose' = NoClose
    /\ pipe' = <<>>
    /\ output' = <<>>
    /\ ports' = <<>>
    /\ webUrl' = <<>>
    /\ outcome' = NotSettled
    /\ emitted' = <<>>
    /\ log' = <<>>
    /\ reported' = <<>>
    /\ splitFor' = {}
    /\ diag' = <<>>
    /\ unread' = <<>>
    /\ stderrLogV2' = <<>>
    /\ removedNow' = {}
    /\ UNCHANGED <<manifest, containers>>

NextTwice == Next \/ Rerun

SpecTwice == Init /\ [][NextTwice]_vars

----------------------------------------------------------------------------
(* Vocabulary of the properties. *)

Doc == manifest.doc
Declared == Doc.decl                      \* service keys as the manifest lists them
SpawnedOf(kind) == SelectSeq(spawned, LAMBDA c : c.kind = kind)
ServicesOf(procs) == [k \in 1..Len(procs) |-> procs[k].service]
PastRemoval == pc \in {"up", "inspect", "done", "rejected"}
Logged(sev, msg) == \E k \in 1..Len(log) : log[k] = Entry(sev, msg)

----------------------------------------------------------------------------
\* C1: when docker compose up closes with a non-zero code, the handler
\* rejects with an error carrying that code, no port query is ever spawned
\* and the ports record is never populated.
C1_UpFailureAborts ==
    (lastClose.kind = "up" /\ lastClose.code # 0) =>
        /\ pc = "rejected"
        /\ outcome = Thrown("upExited", lastClose.code)
        /\ SpawnedOf("inspect") = <<>>
        /\ ports = <<>>
        /\ emitted = <<>>

C1_Witness ==
    /\ pc = "rejected"
    /\ lastClose = [kind |-> "up", service |-> NoService, code |-> 1]
    /\ Len(serviceNames) = MaxServices

\* C2: when the compose file does not exist, the handler throws the
\* not-found error and no child process is ever spawned.
C2_MissingManifestSpawnsNothing ==
    ~manifest.exists =>
        /\ spawned = <<>>
        /\ children = {}
        /\ pc \in {"init", "thrown"}
        /\ pc = "thrown" => outcome = Thrown("composeFileNotFound", 0)

C2_Witness == ~manifest.exists /\ pc = "thrown"

\* C3 (as claimed): on a completed run webUrl is http://localhost:<hostPort>
\* of the first mapping of the first service, in the order the manifest
\* declares the services, whose mappings are non-empty, and empty if none.
Publishing(order) ==
    {k \in 1..Len(order) : HasProp(ports, order[k]) /\ Len(GetProp(ports, order[k])) > 0}

FirstPublishing(order) ==
    CHOOSE k \in Publishing(order) : \A o \in Publishing(order) : k <= o

C3_WebUrlOfFirstDeclared ==
    pc = "done" =>
        webUrl = IF Publishing(Declared) = {} THEN <<>>
                 ELSE URL_PREFIX
                        \o GetProp(ports, Declared[FirstPublishing(Declared)])[1].hostPort

\* C4 (as claimed): the removals are spawned one per declared service, in the
\* order the manifest declares the services.
C4_RemovalsInDeclaredOrder ==
    LET removed == ServicesOf(SpawnedOf("rm"))
    IN  /\ Len(removed) <= Len(Declared)
        /\ removed = SubSeq(Declared, 1, Len(removed))
        /\ (PastRemoval /\ Doc.kind = "services") => Len(removed) = Len(Declared)

----------------------------------------------------------------------------
(* The line grammar of a port query, stated on the line itself: a line      *)
(* <digits>/tcp -> <host>:<digits> splits after its i-th character (end of  *)
(* the container port) and at its j-th (the colon before the host port).    *)

AnyHost(host) == TRUE
ColonFreeHost(host) == host # <<>> /\ \A k \in 1..Len(host) : host[k] # ":"

FormSplits(line, HostOk(_)) ==
    LET PortEnds ==
            {i \in 1..Len(line) :
                /\ i + Len(TCP_ARROW) < Len(line)
                /\ AllDigits(SubSeq(line, 1, i))
                /\ SubSeq(line, i + 1, i + Len(TCP_ARROW)) = TCP_ARROW}
        Colons(i) ==
            {j \in (i + Len(TCP_ARROW) + 1)..(Len(line) - 1) :
                /\ line[j] = ":"
                /\ HostOk(SubSeq(line, i + Len(TCP_ARROW) + 1, j - 1))
                /\ AllDigits(SubSeq(line, j + 1, Len(line)))}
    IN  UNION {{<<i, j>> : j \in Colons(i)} : i \in PortEnds}

FormMatch(line, HostOk(_)) ==
    IF FormSplits(line, HostOk) = {} THEN <<>>
    ELSE LET ij == CHOOSE x \in FormSplits(line, HostOk) : TRUE
         IN  <<[containerPort |-> SubSeq(line, 1, ij[1]),
                hostPort |-> SubSeq(line, ij[2] + 1, Len(line))]>>

RECURSIVE Flatten(_)
Flatten(seqs) == IF seqs = <<>> THEN <<>> ELSE Head(seqs) \o Flatten(Tail(seqs))

FormMappings(lines, HostOk(_)) ==
    Flatten([k \in 1..Len(lines) |-> FormMatch(lines[k], HostOk)])

\* C5 (as claimed): the mappings stored for a service are, in the order
\* reported, one per line <digits>/tcp -> anything:<digits>, anything being
\* any text; every other line contributes nothing.
C5_MappingsOfAnyHostLines ==
    \A k \in 1..Len(ports) :
        ports[k].key \in DOMAIN reported
            => ports[k].val = FormMappings(reported[ports[k].key], AnyHost)

\* C5 (amended): as above, the text between "-> " and the last colon being
\* one or more characters none of which is a colon.
C5_MappingsOfColonFreeHostLines ==
    \A k \in 1..Len(ports) :
        /\ ports[k].key \in DOMAIN reported
        /\ ports[k].val = FormMappings(reported[ports[k].key], ColonFreeHost)

C5_Witness ==
    \E k \in 1..Len(ports) :
        /\ reported[ports[k].key] = <<LineUdp, LineTcp>>
        /\ ports[k].val = <<[containerPort |-> <<"8", "0">>, hostPort |-> <<"9">>]>>

\* C6: when the manifest exists and yields no service, no removal and no
\* port query is spawned, docker compose up is still spawned, and on its
\* success the run completes with an empty ports record and an empty webUrl.
ZeroServices == manifest.exists /\ (Doc.kind # "services" \/ Declared = <<>>)

C6_ZeroServices ==
    (ZeroServices /\ pc # "init") =>
        /\ spawned = <<Child("up", NoService)>>
        /\ pc \in {"up", "done", "rejected"}
        /\ (lastClose.kind = "up" /\ lastClose.code = 0) =>
              /\ pc = "done"
              /\ outcome = Returned
              /\ ports = <<>>
              /\ webUrl = <<>>
              /\ emitted = <<[name |-> "ports", ports |-> <<>>, webUrl |-> <<>>],
                             [name |-> "webUrl", ports |-> <<>>, webUrl |-> <<>>]>>

C6_Witness == ZeroServices /\ pc = "done" /\ spawned = <<Child("up", NoService)>>

StageRank(kind) == CASE kind = "rm" -> 1 [] kind = "up" -> 2 [] kind = "inspect" -> 3

C8_OneChildAtATime ==
    /\ Cardinality(children) <= 1
    /\ \A k \in 1..Len(spawned) : spawned[k] \in children => k = Len(spawned)
    /\ \A a, b \in 1..Len(spawned) :
          a < b => StageRank(spawned[a].kind) <= StageRank(spawned[b].kind)
    /\ Len(SpawnedOf("up")) = (IF PastRemoval THEN 1 ELSE 0)
    /\ (manifest.exists /\ pc # "init") => pc \in {"rm", "up", "inspect", "done", "rejected"}
    /\ SpawnedOf("up") # <<>> => ServicesOf(SpawnedOf("rm")) = serviceNames
    /\ SpawnedOf("inspect") # <<>> =>
          /\ Child("up", NoService) \notin children
          /\ lastClose.kind \in {"up", "inspect"}
          /\ lastClose.kind = "up" => lastClose.code = 0

C8_Witness ==
    /\ pc = "inspect"
    /\ idx = 2
    /\ Len(spawned) = Len(serviceNames) + 1 + idx
    /\ children = {Child("inspect", serviceNames[2])}

\* C9: whatever code a removal closes with, the run goes on: the next
\* removal, or after the last one docker compose up, is spawned and the
\* handler's promise is not settled.
Position(names, name) == CHOOSE k \in 1..Len(names) : names[k] = name

C9_RemovalStatusIgnored ==
    lastClose.kind = "rm" =>
        LET k == Position(serviceNames, lastClose.service)
        IN  /\ outcome = NotSettled
            /\ Len(spawned) = k + 1
            /\ spawned[k + 1] = IF k < Len(serviceNames)
                                THEN Child("rm", serviceNames[k + 1])
                                ELSE Child("up", NoService)
            /\ spawned[k + 1] \in children

C9_Witness ==
    /\ lastClose.kind = "rm"
    /\ lastClose.code = SIGNALLED
    /\ pc = "up"
    /\ Child("up", NoService) \in children

\* C10: every key of the ports record is one of the extracted service names.
C10_PortKeysAreServices ==
    /\ Range(InsertedKeys(ports)) \subseteq Range(serviceNames)
    /\ \A k \in 1..Len(emitted) :
          Range(InsertedKeys(emitted[k].ports)) \subseteq Range(serviceNames)

C10_Witness == pc = "done" /\ Len(ports) = MaxServices /\ Len(emitted) = 2


----------------------------------------------------------------------------
C16_OutputsOnceOnCompletion ==
    /\ pc # "done" => emitted = <<>>
    /\ outcome.kind = "error" => emitted = <<>> /\ pc \in {"thrown", "rejected"}
    /\ pc = "done" =>
          /\ emitted = <<[name |-> "ports", ports |-> ports, webUrl |-> <<>>],
                         [name |-> "webUrl", ports |-> <<>>, webUrl |-> webUrl]>>
          /\ children = {}
          /\ ServicesOf(SpawnedOf("inspect")) = serviceNames
          /\ outcome = Returned

C16_Witness ==
    /\ pc = "done"
    /\ Len(serviceNames) = MaxServices
    /\ lastClose.kind = "inspect"
    /\ Len(emitted) = 2

\* C19: the web-URL scan visits the ports record in the order of the
\* extracted service-name list, which is also the order of the removals and
\* of the port queries, integer-like names included.
IsPrefix(p, s) == Len(p) <= Len(s) /\ p = SubSeq(s, 1, Len(p))

C19_ScanOrderIsProcessingOrder ==
    /\ IsPrefix(ServicesOf(SpawnedOf("rm")), serviceNames)
    /\ IsPrefix(ServicesOf(SpawnedOf("inspect")), serviceNames)
    /\ IsPrefix(InsertedKeys(ObjectEntries(ports)), serviceNames)
    /\ pc = "done" => InsertedKeys(ObjectEntries(ports)) = serviceNames

C19_Witness ==
    /\ pc = "done"
    /\ Declared = <<TEN, TWO>>
    /\ InsertedKeys(ObjectEntries(ports)) = <<TWO, TEN>>


----------------------------------------------------------------------------
\* C18: the mappings stored for a service are those of the whole text its
\* port query wrote, however the data events cut that text: also when a
\* data event ended in the middle of a line.
C18_MappingsIgnoreChunking ==
    \A k \in 1..Len(ports) :
        ports[k].val = ParsePorts(WrittenText(reported[ports[k].key]))

C18_Witness ==
    \E k \in 1..Len(ports) :
        /\ ports[k].key \in splitFor
        /\ reported[ports[k].key] = <<LineTcp2, LineTcp>>
        /\ Len(ports[k].val) = 2


----------------------------------------------------------------------------
\* C14: if every spawned child eventually closes, every run eventually
\* settles, and it settles in exactly one way that never changes: the
\* returned result (ports and webUrl), or the compose-file-not-found error,
\* or the error carrying the non-zero code of docker compose up.
Settled == outcome # NotSettled

OutcomeWellFormed ==
    /\ outcome \in {NotSettled, Returned, Thrown("composeFileNotFound", 0)}
                      \cup {Thrown("upExited", c) : c \in CloseCodes \ {0}}
    /\ outcome = NotSettled <=> pc \in {"init", "rm", "up", "inspect"}
    /\ outcome = Returned <=> pc = "done"
    /\ outcome = Returned => Len(emitted) = 2 /\ children = {}
    /\ outcome = Thrown("composeFileNotFound", 0) <=> pc = "thrown"
    /\ pc = "thrown" => ~manifest.exists
    /\ pc = "rejected" =>
          /\ lastClose.kind = "up"
          /\ outcome = Thrown("upExited", lastClose.code)
          /\ children = {}

C14_RunSettlesExactlyOnce ==
    /\ []OutcomeWellFormed
    /\ [][Settled => outcome' = outcome]_vars
    /\ <>Settled

C14_Witness ==
    /\ pc = "rejected"
    /\ outcome = Thrown("upExited", SIGNALLED)
    /\ Len(SpawnedOf("rm")) = MaxServices



----------------------------------------------------------------------------
(* Vocabulary of the diagnostics. *)

\* Log entries that forward a chunk (the others carry no child output).
DiagLog == SelectSeq(log, LAMBDA e : e.text # <<>>)

ChunkText(chunk) == WrittenText(chunk.lines)

UpStderrChunks ==
    {k \in 1..Len(diag) : diag[k].kind = "up" /\ diag[k].stream = "stderr"}

\* In the model no other stream carries a text that docker compose up writes
\* on stderr, so these texts identify the entries of its stderr handler.
UpStderrTexts == {ChunkText(diag[k]) : k \in UpStderrChunks}

IsDelivered(k) == \A j \in 1..Len(unread) : unread[j] # diag[k]

\* The severity the handler of a stream of a child logs at (first variant).
SeverityOf(chunk) == IF chunk.stream = "stdout" THEN "info" ELSE "warn"

ForwardedAt(chunk, sev) ==
    \E j \in 1..Len(log) : log[j].text = ChunkText(chunk) /\ log[j].sev = sev

\* Non-blank lines the port queries wrote on stdout.
PortLines == UNION {Range(reported[s]) : s \in DOMAIN reported} \ {<<>>}

\* The second variant's handler (line 266) logs a token-free chunk at error.
SecondVariantLogsAtError ==
    \A j \in 1..Len(stderrLogV2) :
        stderrLogV2[j].sev = IF HasToken(stderrLogV2[j].text) THEN "warn" ELSE "error"

----------------------------------------------------------------------------
\* C12: a chunk that docker compose up writes on stderr is logged at error
\* severity when it holds none of 'Creating', 'Created', 'level=warning', and
\* at warning severity only when it holds one of them.
C12_UnrecognisedLoggedAtError ==
    \A j \in 1..Len(log) :
        log[j].text \in UpStderrTexts =>
            log[j].sev = IF HasToken(log[j].text) THEN "warn" ELSE "error"

----------------------------------------------------------------------------
\* C13 as stated: when the run has ended, everything a child wrote on stdout
\* or stderr has been forwarded to the logger, the lines the port queries
\* wrote on stdout included.
C13_AllOutputForwarded ==
    Settled =>
        /\ \A k \in 1..Len(diag) : \E j \in 1..Len(log) : log[j].text = ChunkText(diag[k])
        /\ \A line \in PortLines : \E j \in 1..Len(log) : Includes(log[j].text, line)

\* C13 amended: every chunk a removal or docker compose up writes on stdout
\* or stderr, and every chunk a port query writes on stderr, is forwarded to
\* the logger before the run ends (stdout at info, stderr at warn), one entry
\* per chunk; what a port query writes on stdout is never forwarded.
C13_DiagnosticsForwarded ==
    /\ Len(DiagLog) + Len(unread) = Len(diag)
    /\ Settled => unread = <<>>
    /\ \A k \in 1..Len(diag) :
           IsDelivered(k) => ForwardedAt(diag[k], SeverityOf(diag[k]))
    /\ \A line \in PortLines : \A j \in 1..Len(log) : ~Includes(log[j].text, line)

C13_Witness ==
    /\ pc = "done"
    /\ \E k \in 1..Len(diag) : diag[k].kind = "inspect" /\ diag[k].stream = "stderr"
    /\ LineTcp \in PortLines

----------------------------------------------------------------------------
\* C17: a token-free line that docker compose up writes on stderr is logged
\* at error severity (by one variant of the handler or the other) also when
\* it arrives in the same chunk as a line holding a token.
C17_ClassifiedLineByLine ==
    \A k \in UpStderrChunks :
        IsDelivered(k) =>
            \A i \in 1..Len(diag[k].lines) :
                (/\ ~HasToken(diag[k].lines[i])
                 /\ \E o \in 1..Len(diag[k].lines) : HasToken(diag[k].lines[o]))
                    => \E e \in Range(log) \cup Range(stderrLogV2) :
                           e.sev = "error" /\ Includes(e.text, diag[k].lines[i])


----------------------------------------------------------------------------
(* Vocabulary of two invocations in a row. *)

SecondRun == run = 2 /\ prev.outcome = Returned

\* The removal of a service has closed with code 0 in this invocation.
RemovedOk(service) ==
    /\ lastClose.kind = "rm"
    /\ lastClose.service = service
    /\ lastClose.code = 0

----------------------------------------------------------------------------
====
